---------------------------- MODULE Spec2Model ----------------------------
(***************************************************************************)
(* A model of dumper (src/src/dumper): the ignore-pattern handling, the    *)
(* file walk, the tree rendering, the assembly of the file dump and the    *)
(* concurrent summarisation batch of core.py, and the command of cli.py.   *)
(*                                                                         *)
(* A path is the sequence of its components (pathlib's Path.parts).  A     *)
(* string of the output is a sequence of tokens: a newline is one token,   *)
(* and a text that the program formats as a unit and never looks into (a   *)
(* header, one line of a file without its newline, an error line, a        *)
(* summary, a tree line) is one token.  Python's None is a record with     *)
(* none = TRUE.                                                            *)
(***************************************************************************)
EXTENDS Integers, Sequences, FiniteSets, TLC

VARIABLES
    fs,                      \* the entries below the root (relative paths)
    root,                    \* [given, resolved]: the root as passed, and its resolved absolute path
    scan,                    \* the order in which the file system enumerates a directory
    unreadable,              \* the files whose open() raises
    DEFAULT_IGNORE_PATTERNS, \* the module-level list of core.py
    pc,                      \* where the running call is
    args,                    \* the arguments of the running (or last) call
    main_ignore,             \* main's local ignore_patterns
    ignore_patterns,         \* dump_files' local ignore_patterns, as handed to walk_files
    tree_output,             \* what dump_tree returned
    walked,                  \* the paths walk_files yields, in order
    lines,                   \* dump_files' local lines: one block (list of lines) per file
    paths,                   \* dump_files' local paths
    task,                    \* the state of each summary call of the batch
    results,                 \* the slots of asyncio.gather, by position
    finished,                \* the summary calls that returned or failed, in the order they did
    reads,                   \* the outcome of reading each walked file, in order
    output                   \* what dump_files returned

vars == <<fs, root, scan, unreadable, DEFAULT_IGNORE_PATTERNS, pc, args, main_ignore,
          ignore_patterns, tree_output, walked, lines, paths, task, results, finished, reads, output>>

env == <<fs, root, scan, unreadable>>

-----------------------------------------------------------------------------
(* Bounds of the model *)

\* The longest list of patterns a caller passes (ignore_patterns, keep_patterns).
MaxPatterns == 2

\* The largest depth passed to dump_tree; the deepest entry of the model lies at 3.
MaxDepth == 3

-----------------------------------------------------------------------------
(* Python values *)

None == [none |-> TRUE, list |-> <<>>]

Some(l) == [none |-> FALSE, list |-> l]

Range(s) == {s[i] : i \in DOMAIN s}

\* x in s, for a list s
In(x, s) == \E i \in DOMAIN s : s[i] = x

\* list.remove(x): the first occurrence goes, the others stay
ListRemove(s, x) ==
    LET i == CHOOSE j \in DOMAIN s : s[j] = x /\ \A k \in 1..(j - 1) : s[k] # x
    IN  SubSeq(s, 1, i - 1) \o SubSeq(s, i + 1, Len(s))

\* list(dict.fromkeys(s)): each element once, at the place of its first occurrence
dict_fromkeys(s) ==
    LET first(i) == \A j \in 1..(i - 1) : s[j] # s[i]
        kept     == SelectSeq([i \in 1..Len(s) |-> i], first)
    IN  [k \in 1..Len(kept) |-> s[kept[k]]]

RECURSIVE Flatten(_)
\* itertools.chain.from_iterable, and the concatenation of a list of lists
Flatten(ss) == IF ss = <<>> THEN <<>> ELSE Head(ss) \o Flatten(Tail(ss))

Tok(k, p, n) == [k |-> k, p |-> p, n |-> n]

NL == Tok("nl", <<>>, 0)

RECURSIVE Join(_, _)
\* sep.join(strs)
Join(sep, strs) ==
    IF strs = <<>> THEN <<>>
    ELSE IF Len(strs) = 1 THEN strs[1]
    ELSE strs[1] \o sep \o Join(sep, Tail(strs))

RECURSIVE rstrip(_)
\* line.rstrip("\n")
rstrip(line) ==
    IF line # <<>> /\ line[Len(line)] = NL THEN rstrip(SubSeq(line, 1, Len(line) - 1))
    ELSE line

RECURSIVE lstrip(_)
lstrip(s) == IF s # <<>> /\ s[1] = NL THEN lstrip(Tail(s)) ELSE s

\* str.strip(), the whitespace of the model being the newline
strip(s) == rstrip(lstrip(s))

-----------------------------------------------------------------------------
(* config.py and the module-level list of core.py *)

PYTHON_IGNORE_PATTERNS ==
    << ".venv", "venv", "__pycache__", ".ruff_cache", ".mypy_cache", ".pytest_cache",
       ".tox", ".eggs", "build", "dist", ".coverage", ".python-version", "poetry.lock",
       "_.egg-info" >>

NODE_IGNORE_PATTERNS ==
    << "node_modules", ".next", ".nuxt", ".angular", "bower_components", "jspm_packages",
       "coverage", ".cache", "build", "dist", ".eslintcache", "yarn-error.log",
       "yarn.lock", "package-lock.json", "pnpm-lock.yaml", ".DS_Store" >>

GIT_IGNORE_PATTERNS ==
    << ".git", ".gitmodules", ".gitattributes", ".gitkeep", ".git-rewrite" >>

INTELLIJ_IGNORE_PATTERNS == << ".idea" >>

\* The value of DEFAULT_IGNORE_PATTERNS when the module is imported.
InitialDefaultPatterns ==
    PYTHON_IGNORE_PATTERNS \o NODE_IGNORE_PATTERNS \o GIT_IGNORE_PATTERNS
        \o INTELLIJ_IGNORE_PATTERNS

-----------------------------------------------------------------------------
(* The file system *)

\* Every entry a tree of the model may hold, relative to the root.
Universe ==
    { << "a.txt" >>, << ".git" >>, << ".git", "config" >>, << "sub" >>,
      << "sub", "b.txt" >>, << "sub", "c.txt" >>, << "sub", "build" >>,
      << "sub", "build", "o.txt" >>, << "yarn.lock" >> }

Directories == { << >>, << ".git" >>, << "sub" >>, << "sub", "build" >> }

\* The names of the model in ascending order of their code points.
NameOrder ==
    << ".git", "a.txt", "b.txt", "build", "c.txt", "config", "o.txt", "sub", "yarn.lock" >>

Parent(p) == SubSeq(p, 1, Len(p) - 1)

\* A tree holds the directory of each of its entries.
Trees == { t \in SUBSET Universe : \A p \in t : Len(p) > 1 => Parent(p) \in t }

FullTree == Universe

\* The roots: "." in /home/proj; an absolute root below a directory named build;
\* "proj" given relative to the working directory /build.
Roots ==
    { [given |-> << >>,                          resolved |-> << "/", "home", "proj" >>],
      [given |-> << "/", "srv", "build", "proj" >>, resolved |-> << "/", "srv", "build", "proj" >>],
      [given |-> << "proj" >>,                   resolved |-> << "/", "build", "proj" >>] }

ScanOrders == { "asc", "desc" }

\* The raw lines of each file, as iterating the open file gives them.
Content(p) ==
    CASE p = << "a.txt" >>        -> << << Tok("txt", p, 1), NL >>, << NL >>, << Tok("txt", p, 3) >> >>
      [] p = << "sub", "b.txt" >> -> << << Tok("txt", p, 1), NL >> >>
      [] p = << "sub", "c.txt" >> -> << >>
      [] OTHER                    -> << << Tok("txt", p, 1), NL >> >>

is_dir(p) == p \in Directories

is_file(p) == p \notin Directories

\* Path.iterdir(): the children of a directory, in the file system's order
iterdir(tree, dir, order) ==
    LET n    == Len(NameOrder)
        at(i) == IF order = "asc" THEN NameOrder[i] ELSE NameOrder[n + 1 - i]
        names == [i \in 1..n |-> at(i)]
        here(name) == Append(dir, name) \in tree
        kept  == SelectSeq(names, here)
    IN  [i \in 1..Len(kept) |-> Append(dir, kept[i])]

\* sorted(path.iterdir(), key=lambda x: x.name)
sorted_iterdir(tree, dir) == iterdir(tree, dir, "asc")

-----------------------------------------------------------------------------
(* core.py: is_ignored, walk_files, dump_tree *)

\* A variant that looks at the last component (the name) alone.
is_ignored_name_only(path, patterns) == path # <<>> /\ In(path[Len(path)], patterns)

is_ignored(path, patterns) == \E i \in DOMAIN path : In(path[i], patterns)

RECURSIVE rglob(_, _, _)
\* Path.rglob("*"): the entries of a directory, then those of each of its
\* subdirectories, every entry below the root once
rglob(tree, dir, order) ==
    LET kids == iterdir(tree, dir, order)
        sub(i) == IF is_dir(kids[i]) THEN rglob(tree, kids[i], order) ELSE <<>>
    IN  kids \o Flatten([i \in 1..Len(kids) |-> sub(i)])

\* A variant that yields directories too.
walk_files_any_entry(tree, rootgiven, recursive, patterns, defaults, order) ==
    LET pats  == IF patterns.none THEN defaults ELSE patterns.list
        cand  == IF recursive THEN rglob(tree, <<>>, order) ELSE iterdir(tree, <<>>, order)
        ok(p) == ~is_ignored(rootgiven \o p, pats)
    IN  SelectSeq(cand, ok)

walk_files(tree, rootgiven, recursive, patterns, defaults, order) ==
    LET pats  == IF patterns.none THEN defaults ELSE patterns.list
        cand  == IF recursive THEN rglob(tree, <<>>, order) ELSE iterdir(tree, <<>>, order)
        ok(p) == is_file(p) /\ ~is_ignored(rootgiven \o p, pats)
    IN  SelectSeq(cand, ok)

\* f"./{rel}" + ("/" if path.is_dir() else "")
TreeLine(rel) == << Tok("tree", rel, IF is_dir(rel) THEN 1 ELSE 0) >>

RECURSIVE walk_tree(_, _, _, _, _)
\* _walk of dump_tree: the lines appended for path and everything below it
walk_tree(tree, rootres, rel, max_depth, pats) ==
    LET path == rootres \o rel IN
    IF Len(path) > max_depth THEN <<>>
    ELSE IF is_ignored(path, pats) THEN <<>>
    ELSE LET own  == IF rel # <<>> THEN << TreeLine(rel) >> ELSE <<>>
             kids == IF is_dir(rel) THEN sorted_iterdir(tree, rel) ELSE <<>>
         IN  own \o Flatten([i \in 1..Len(kids) |->
                               walk_tree(tree, rootres, kids[i], max_depth, pats)])

dump_tree(tree, rootres, depth, patterns, defaults) ==
    LET pats      == IF patterns.none THEN defaults ELSE patterns.list
        max_depth == Len(rootres) + depth
    IN  Join(<< NL >>, walk_tree(tree, rootres, <<>>, max_depth, pats))

-----------------------------------------------------------------------------
(* core.py: dump_files, up to the summaries *)

\* Lines 172-177: the caller's list merged with the defaults, or, for None, the
\* module-level list itself (the same object, not a copy).
merged_patterns(ig, defaults) ==
    IF ~ig.none THEN dict_fromkeys(ig.list \o defaults) ELSE defaults

RECURSIVE remove_kept(_, _)
\* Lines 179-184: for each keep pattern in turn, if it is in the list, list.remove it.
remove_kept(ignore, keep) ==
    IF keep = <<>> THEN ignore
    ELSE LET p == Head(keep)
         IN  remove_kept(IF In(p, ignore) THEN ListRemove(ignore, p) ELSE ignore, Tail(keep))

\* The list dump_files hands to walk_files.
effective_ignore(ig, kp, defaults) ==
    LET merged == merged_patterns(ig, defaults)
    IN  IF kp.none THEN merged ELSE remove_kept(merged, kp.list)

\* The caller's list after lines 172-184: line 173 binds the local name to a new
\* list, so the removals never reach the list that was passed.
caller_list_after(ig, kp, defaults) == ig

\* The outcome of opening and reading a file: it succeeds, or raises after
\* `at` lines have been iterated (0: at open, or at the first read).
Ok == [ok |-> TRUE, at |-> 0]

Fails(k) == [ok |-> FALSE, at |-> k]

Header(full) == << Tok("hdr", full, 0) >>

ErrorLine(full) == << Tok("err", full, 0) >>

\* Lines 190-198: the block of one file.  The comprehension of line 194 builds
\* its list before extend is called, so an exception leaves file_lines with the
\* header alone.
PartialFileLines(rootgiven, rel, outcome) ==
    LET full == rootgiven \o rel
        raw  == Content(rel)
        read == [i \in 1..Len(raw) |-> rstrip(raw[i])]
        body == IF outcome.ok THEN read
                ELSE Append(SubSeq(read, 1, outcome.at), ErrorLine(full))
    IN  << Header(full) >> \o body \o << <<>> >>

file_lines(rootgiven, rel, outcome) ==
    LET full == rootgiven \o rel
        raw  == Content(rel)
        read == [i \in 1..Len(raw) |-> rstrip(raw[i])]
        body == IF outcome.ok THEN read ELSE << ErrorLine(full) >>
    IN  << Header(full) >> \o body \o << <<>> >>

\* Lines 209-212, sum_up false.
assemble_plain(blocks) == Join(<< NL >>, Flatten(blocks))

\* Line 139: the prompt of a block.
Prompt(block) == << Tok("prompt", <<>>, 0), NL >> \o Join(<< NL >>, block)

\* What the summarisation service answers to a prompt and a path: a text that
\* names the path and depends on the prompt, with white space around it.
Reply(prompt, full) == << NL, Tok("sum", full, Len(prompt)), NL >>

\* Lines 119-137: the value of one fetch_summary call that returns.
fetch_summary(prompt, full) == strip(Reply(prompt, full))

\* A variant of gather that files a result in the first free slot, that is, in
\* the order of completion.
store_by_completion(res, i, value) ==
    LET free == CHOOSE j \in DOMAIN res : res[j] = <<>> /\ \A k \in 1..(j - 1) : res[k] # <<>>
    IN  [res EXCEPT ![free] = value]

\* Line 146: asyncio.gather keeps the result of its i-th awaitable in slot i.
store_result(res, i, value) == [res EXCEPT ![i] = value]

\* A variant of asyncio.run that returns with calls still pending.
leave_pending(t) == t

\* Lines 202-204: when the coroutine of asyncio.run has raised, run cancels the
\* tasks that are still pending and waits for them before it raises.
cancel_all_tasks(t) == [i \in DOMAIN t |-> IF t[i] = "pending" THEN "cancelled" ELSE t[i]]

\* A variant that ends each summary with no newline after it.
assemble_summed_no_newline(blocks, res) ==
    LET n == IF Len(blocks) < Len(res) THEN Len(blocks) ELSE Len(res)
    IN  Join(<< NL >>, [i \in 1..n |-> Join(<< NL >>, blocks[i]) \o << NL >> \o res[i]])

\* Lines 205-208 and 212, sum_up true.
assemble_summed(blocks, res) ==
    LET n == IF Len(blocks) < Len(res) THEN Len(blocks) ELSE Len(res)
    IN  Join(<< NL >>, [i \in 1..n |-> Join(<< NL >>, blocks[i]) \o << NL >> \o res[i] \o << NL >>])

OpenOutcome(rel) == IF rel \in unreadable THEN Fails(0) ELSE Ok

\* dump_files with sum_up false, as one step: lines 172-199 and 209-212.
DumpFilesPlain(ig, kp, recursive) ==
    /\ ignore_patterns' = effective_ignore(ig, kp, DEFAULT_IGNORE_PATTERNS)
    /\ DEFAULT_IGNORE_PATTERNS' = IF ig.none THEN ignore_patterns' ELSE DEFAULT_IGNORE_PATTERNS
    /\ walked' = walk_files(fs, root.given, recursive, Some(ignore_patterns'),
                            DEFAULT_IGNORE_PATTERNS', scan)
    /\ paths' = walked'
    /\ lines' = [i \in 1..Len(walked') |-> file_lines(root.given, walked'[i], OpenOutcome(walked'[i]))]
    /\ output' = assemble_plain(lines')

-----------------------------------------------------------------------------
(* The arguments of the model *)

PatternNames == { "build", ".git", "sub" }

SeqsUpTo(S, n) == UNION { [1..k -> S] : k \in 0..n }

PatternLists == SeqsUpTo(PatternNames, MaxPatterns)

OptPatternLists == { None } \cup { Some(l) : l \in PatternLists }

Depths == (0 - 1)..MaxDepth

Args(op, depth, ig, kp, recursive, sum_up, only_tree) ==
    [op |-> op, depth |-> depth, patterns |-> ig, keep |-> kp, recursive |-> recursive,
     sum_up |-> sum_up, only_tree |-> only_tree]

NoArgs == Args("none", 0, None, None, FALSE, FALSE, FALSE)

\* The variables of a call, before any call.
NoCall ==
    /\ main_ignore = <<>>
    /\ ignore_patterns = <<>>
    /\ tree_output = <<>>
    /\ walked = <<>>
    /\ lines = <<>>
    /\ paths = <<>>
    /\ task = <<>>
    /\ results = <<>>
    /\ finished = <<>>
    /\ reads = <<>>
    /\ output = <<>>

-----------------------------------------------------------------------------
(* SpecWalk: walk_files, dump_tree and dump_files as functions of their      *)
(* arguments and of the file system.                                         *)

\* The trees of SpecWalk: every tree of the model.
WalkTrees == Trees

WalkArgs ==
    { Args("dump_tree", d, p, None, FALSE, FALSE, FALSE) : d \in Depths, p \in OptPatternLists }
    \cup { Args("walk_files", 0, p, None, r, FALSE, FALSE) : p \in OptPatternLists, r \in BOOLEAN }
    \cup { Args("dump_files", 0, p, None, r, FALSE, FALSE) : p \in OptPatternLists, r \in BOOLEAN }

InitWalk ==
    /\ fs \in WalkTrees
    /\ root \in Roots
    /\ scan \in ScanOrders
    /\ unreadable = {}
    /\ DEFAULT_IGNORE_PATTERNS = InitialDefaultPatterns
    /\ pc = "start"
    /\ args \in WalkArgs
    /\ NoCall

ApplyDumpTree ==
    /\ pc = "start"
    /\ args.op = "dump_tree"
    /\ tree_output' = dump_tree(fs, root.resolved, args.depth, args.patterns,
                                DEFAULT_IGNORE_PATTERNS)
    /\ pc' = "tree"
    /\ UNCHANGED <<env, DEFAULT_IGNORE_PATTERNS, args, main_ignore, ignore_patterns,
                   walked, lines, paths, task, results, finished, reads, output>>

ApplyWalkFiles ==
    /\ pc = "start"
    /\ args.op = "walk_files"
    /\ walked' = walk_files(fs, root.given, args.recursive, args.patterns,
                            DEFAULT_IGNORE_PATTERNS, scan)
    /\ pc' = "walk"
    /\ UNCHANGED <<env, DEFAULT_IGNORE_PATTERNS, args, main_ignore, ignore_patterns,
                   tree_output, lines, paths, task, results, finished, reads, output>>

ApplyDumpFiles ==
    /\ pc = "start"
    /\ args.op = "dump_files"
    /\ DumpFilesPlain(args.patterns, args.keep, args.recursive)
    /\ pc' = "dump"
    /\ UNCHANGED <<env, args, main_ignore, tree_output, task, results, finished, reads>>

NextWalk == ApplyDumpTree \/ ApplyWalkFiles \/ ApplyDumpFiles

SpecWalk == InitWalk /\ [][NextWalk]_vars

-----------------------------------------------------------------------------
(* Claims checked under SpecWalk *)

\* The tokens of one kind in a string, as a set and as a count.
TokensOf(kind, str) == { str[i] : i \in { j \in DOMAIN str : str[j].k = kind } }

CountOf(kind, str) == Cardinality({ j \in DOMAIN str : str[j].k = kind })

\* The names a call ignores when it is given the list pats (None: the defaults
\* of a fresh import).
NamesOf(pats) == IF pats.none THEN Range(InitialDefaultPatterns) ELSE Range(pats.list)

HasComponentIn(path, names) == \E i \in DOMAIN path : path[i] \in names

\* The entries dump_tree is to list: below the root, at a depth of 1 to depth,
\* with no component of the resolved path among the ignored names.
ExpectedTreeEntries ==
    { p \in fs : /\ Len(p) >= 1
                 /\ Len(p) <= args.depth
                 /\ ~HasComponentIn(root.resolved \o p, NamesOf(args.patterns)) }

\* C2: the lines dump_tree returns are exactly the entries below the root at a
\* depth between 1 and depth none of whose path components (those of the
\* resolved path, as is_ignored sees it) is an ignored name, each once; the
\* root is never a line, and a depth <= 0 gives the empty string.
ThmTreeLines ==
    pc = "tree" =>
        /\ TokensOf("tree", tree_output)
             = { Tok("tree", p, IF p \in Directories THEN 1 ELSE 0) : p \in ExpectedTreeEntries }
        /\ CountOf("tree", tree_output) = Cardinality(ExpectedTreeEntries)
        /\ \A i \in DOMAIN tree_output : tree_output[i].p # <<>> \/ tree_output[i] = NL
        /\ (args.depth <= 0 => tree_output = <<>>)

\* A tree call that lists an entry, leaves one out for an ignored name and one
\* for its depth.
WitTreeLines ==
    /\ pc = "tree"
    /\ tree_output # <<>>
    /\ \E p \in fs : Len(p) <= args.depth /\ HasComponentIn(p, NamesOf(args.patterns))
    /\ \E p \in fs : Len(p) > args.depth /\ ~HasComponentIn(root.resolved \o p, NamesOf(args.patterns))

\* The files in the scope of the walk.
WalkScope == IF args.recursive THEN fs ELSE { p \in fs : Len(p) = 1 }

ExpectedFiles(names) ==
    { p \in WalkScope : p \notin Directories /\ ~HasComponentIn(root.given \o p, names) }

\* C3: walk_files yields exactly the regular files in scope whose path has no
\* ignored component, each once and never a directory; dump_files has a block
\* for exactly those files, so none for a file below an ignored directory.
ThmWalkFiles ==
    /\ pc = "walk" =>
          /\ Range(walked) = ExpectedFiles(NamesOf(args.patterns))
          /\ Len(walked) = Cardinality(Range(walked))
    /\ pc = "dump" =>
          LET names == Range(InitialDefaultPatterns) \cup Range(args.patterns.list)
          IN  /\ Range(paths) = ExpectedFiles(names)
              /\ Len(paths) = Cardinality(Range(paths))
              /\ TokensOf("hdr", output) = { Tok("hdr", root.given \o p, 0) : p \in ExpectedFiles(names) }
              /\ CountOf("hdr", output) = Cardinality(ExpectedFiles(names))
              /\ \A t \in TokensOf("hdr", output) \cup TokensOf("txt", output) :
                    ~HasComponentIn(t.p, {".git", "build", "yarn.lock"})

\* A recursive dump of the defaults with blocks for a.txt and sub/b.txt while
\* .git/config and sub/build/o.txt exist.
WitWalkFiles ==
    /\ pc = "dump"
    /\ args.recursive
    /\ args.patterns.none
    /\ { << ".git", "config" >>, << "sub", "build", "o.txt" >> } \subseteq fs
    /\ { Tok("hdr", << "a.txt" >>, 0), Tok("hdr", << "sub", "b.txt" >>, 0) } \subseteq TokensOf("hdr", output)

-----------------------------------------------------------------------------
(* SpecSession: calls of dump_files, dump_tree and walk_files, one after the *)
(* other, in one interpreter (one import of core.py).                        *)

\* The ignore_patterns a session passes to dump_files.
SessionIgnoreLists == { None, Some(<<>>), Some(<< "sub" >>), Some(<< ".git" >>) }

PlainRoot == [given |-> << >>, resolved |-> << "/", "home", "proj" >>]

InitSession ==
    /\ fs = FullTree
    /\ root = PlainRoot
    /\ scan = "asc"
    /\ unreadable = {}
    /\ DEFAULT_IGNORE_PATTERNS = InitialDefaultPatterns
    /\ pc = "start"
    /\ args = NoArgs
    /\ NoCall

\* The session keeps the result of its last call alone.
ForgetDump ==
    /\ ignore_patterns' = <<>>
    /\ walked' = <<>>
    /\ lines' = <<>>
    /\ paths' = <<>>
    /\ output' = <<>>

\* dump_files(root, recursive, ig, kp)
CallDumpFiles ==
    \E ig \in SessionIgnoreLists, kp \in OptPatternLists, r \in BOOLEAN :
        /\ DumpFilesPlain(ig, kp, r)
        /\ args' = Args("dump_files", 0, caller_list_after(ig, kp, DEFAULT_IGNORE_PATTERNS),
                        kp, r, FALSE, FALSE)
        /\ pc' = "dump"
        /\ tree_output' = <<>>
        /\ UNCHANGED <<env, main_ignore, task, results, finished, reads>>

\* dump_tree(root, depth)
CallDumpTree ==
    \E d \in Depths :
        /\ tree_output' = dump_tree(fs, root.resolved, d, None, DEFAULT_IGNORE_PATTERNS)
        /\ args' = Args("dump_tree", d, None, None, FALSE, FALSE, FALSE)
        /\ pc' = "tree"
        /\ ForgetDump
        /\ UNCHANGED <<env, DEFAULT_IGNORE_PATTERNS, main_ignore, task, results, finished, reads>>

\* walk_files(root, recursive)
CallWalkFiles ==
    \E r \in BOOLEAN :
        /\ walked' = walk_files(fs, root.given, r, None, DEFAULT_IGNORE_PATTERNS, scan)
        /\ args' = Args("walk_files", 0, None, None, r, FALSE, FALSE)
        /\ pc' = "walk"
        /\ ignore_patterns' = <<>>
        /\ tree_output' = <<>>
        /\ lines' = <<>>
        /\ paths' = <<>>
        /\ output' = <<>>
        /\ UNCHANGED <<env, DEFAULT_IGNORE_PATTERNS, main_ignore, task, results, finished, reads>>

NextSession == CallDumpFiles \/ CallDumpTree \/ CallWalkFiles

SpecSession == InitSession /\ [][NextSession]_vars

\* C1: the list dump_files hands to walk_files holds exactly the names of
\* (default set UNION added names) MINUS keep names, for every ignore_patterns
\* and keep_patterns, None included.
CexEffectiveIgnore ==
    pc = "dump" =>
        Range(ignore_patterns)
          = (Range(InitialDefaultPatterns) \cup Range(args.patterns.list)) \ Range(args.keep.list)

\* C10: after any sequence of dump_files calls the module-level list and the
\* caller's list are as before, and a call that relies on the defaults ignores
\* the names it ignores on a fresh start.
CexDefaultsUntouched ==
    /\ Range(DEFAULT_IGNORE_PATTERNS) = Range(InitialDefaultPatterns)
    /\ pc = "tree" =>
          tree_output = dump_tree(fs, root.resolved, args.depth, None, InitialDefaultPatterns)
    /\ pc = "walk" =>
          walked = walk_files(fs, root.given, args.recursive, None, InitialDefaultPatterns, scan)

-----------------------------------------------------------------------------
(* SpecMain: one run of the command, cli.py lines 125-150, without           *)
(* --sum-up-files.                                                           *)

\* The --add-ignore-list values of a run.
AddLists == { <<>>, << "sub" >> }

\* The roots of a run: "." and an absolute path, so that the given and the
\* resolved root hold the same names.
MainRoots == { r \in Roots : r.given = <<>> \/ r.given = r.resolved }

InitMain ==
    /\ fs = FullTree
    /\ root \in MainRoots
    /\ scan = "asc"
    /\ unreadable = {}
    /\ DEFAULT_IGNORE_PATTERNS = InitialDefaultPatterns
    /\ pc = "main"
    /\ args \in { Args("main", d, Some(add), Some(rm), r, FALSE, o) :
                    d \in Depths, add \in AddLists, rm \in PatternLists,
                    r \in BOOLEAN, o \in BOOLEAN }
    /\ NoCall

\* Lines 125-136: the list of the run, and the tree.
MainTree ==
    /\ pc = "main"
    /\ LET ip == DEFAULT_IGNORE_PATTERNS \o args.patterns.list
       IN  /\ main_ignore' = ip
           /\ tree_output' = dump_tree(fs, root.resolved, args.depth, Some(ip),
                                       DEFAULT_IGNORE_PATTERNS)
    /\ pc' = "tree"
    /\ UNCHANGED <<env, DEFAULT_IGNORE_PATTERNS, args, ignore_patterns, walked, lines,
                   paths, task, results, finished, reads, output>>

\* Lines 138-139.
MainOnlyTree ==
    /\ pc = "tree"
    /\ args.only_tree
    /\ pc' = "exit"
    /\ UNCHANGED <<env, DEFAULT_IGNORE_PATTERNS, args, main_ignore, ignore_patterns,
                   tree_output, walked, lines, paths, task, results, finished, reads, output>>

\* Lines 141-150.
MainDumpFiles ==
    /\ pc = "tree"
    /\ ~args.only_tree
    /\ DumpFilesPlain(Some(main_ignore), args.keep, args.recursive)
    /\ pc' = "done"
    /\ UNCHANGED <<env, args, main_ignore, tree_output, task, results, finished, reads>>

NextMain == MainTree \/ MainOnlyTree \/ MainDumpFiles

SpecMain == InitMain /\ [][NextMain]_vars

\* C9: in one run the tree and the file walk use the same ignore set, a keep
\* name excludes nothing from either, and every file with a content block at a
\* depth <= tree-depth has a line in the tree.
CexSameIgnoreSet ==
    pc = "done" =>
        \A i \in DOMAIN paths :
            Len(paths[i]) <= args.depth => Tok("tree", paths[i], 0) \in TokensOf("tree", tree_output)

-----------------------------------------------------------------------------
(* SpecSumUp: one call dump_files(root, recursive=True, sum_up=...), step by *)
(* step: the loop over the walked files, then the batch of summary calls.    *)

Completed == { "returned", "raised" }

\* How reading a file may end: an unreadable file fails at open; any other is
\* read to its end, or fails after some of its lines.
Outcomes(rel) ==
    IF rel \in unreadable THEN { Fails(0) }
    ELSE { Ok } \cup { Fails(k) : k \in 0..Len(Content(rel)) }

InitSumUp ==
    /\ fs = FullTree
    /\ root = PlainRoot
    /\ scan \in ScanOrders
    /\ unreadable \in { {}, { << "sub", "b.txt" >> } }
    /\ DEFAULT_IGNORE_PATTERNS = InitialDefaultPatterns
    /\ pc = "call"
    /\ args \in { Args("dump_files", 0, None, None, TRUE, s, FALSE) : s \in BOOLEAN }
    /\ NoCall

\* Lines 172-189: the ignore list, the two empty lists, and the generator.
Enter ==
    /\ pc = "call"
    /\ ignore_patterns' = effective_ignore(args.patterns, args.keep, DEFAULT_IGNORE_PATTERNS)
    /\ DEFAULT_IGNORE_PATTERNS' =
          IF args.patterns.none THEN ignore_patterns' ELSE DEFAULT_IGNORE_PATTERNS
    /\ walked' = walk_files(fs, root.given, args.recursive, Some(ignore_patterns'),
                            DEFAULT_IGNORE_PATTERNS', scan)
    /\ lines' = <<>>
    /\ paths' = <<>>
    /\ pc' = "loop"
    /\ UNCHANGED <<env, args, main_ignore, tree_output, task, results, finished, reads, output>>

\* Lines 189-199: one turn of the loop.
ReadFile ==
    /\ pc = "loop"
    /\ Len(paths) < Len(walked)
    /\ LET rel == walked[Len(paths) + 1]
       IN  \E outcome \in Outcomes(rel) :
             /\ lines' = Append(lines, file_lines(root.given, rel, outcome))
             /\ paths' = Append(paths, rel)
             /\ reads' = Append(reads, outcome)
    /\ UNCHANGED <<env, DEFAULT_IGNORE_PATTERNS, pc, args, main_ignore, ignore_patterns,
                   tree_output, walked, task, results, finished, output>>

\* Lines 201 and 209-212: no summaries.
ReturnPlain ==
    /\ pc = "loop"
    /\ Len(paths) = Len(walked)
    /\ ~args.sum_up
    /\ output' = assemble_plain(lines)
    /\ pc' = "returned"
    /\ UNCHANGED <<env, DEFAULT_IGNORE_PATTERNS, args, main_ignore, ignore_patterns,
                   tree_output, walked, lines, paths, task, results, finished, reads>>

\* Lines 201-203 and 139-146: asyncio.run starts the coroutine, and gather one
\* task per file; each task runs up to its request before gather's caller runs again.
StartBatch ==
    /\ pc = "loop"
    /\ Len(paths) = Len(walked)
    /\ args.sum_up
    /\ task' = [i \in DOMAIN lines |-> "pending"]
    /\ results' = [i \in DOMAIN lines |-> <<>>]
    /\ pc' = "gather"
    /\ UNCHANGED <<env, DEFAULT_IGNORE_PATTERNS, args, main_ignore, ignore_patterns,
                   tree_output, walked, lines, paths, finished, reads, output>>

\* Lines 120-137: the request of one call is answered.
TaskReturn ==
    /\ pc \in { "gather", "closing" }
    /\ \E i \in DOMAIN task :
         /\ task[i] = "pending"
         /\ task' = [task EXCEPT ![i] = "returned"]
         /\ results' = store_result(results, i,
                                    fetch_summary(Prompt(lines[i]), root.given \o paths[i]))
         /\ finished' = Append(finished, i)
    /\ UNCHANGED <<env, DEFAULT_IGNORE_PATTERNS, pc, args, main_ignore, ignore_patterns,
                   tree_output, walked, lines, paths, reads, output>>

\* Line 120: the request of one call raises.
TaskFail ==
    /\ pc \in { "gather", "closing" }
    /\ \E i \in DOMAIN task :
         /\ task[i] = "pending"
         /\ task' = [task EXCEPT ![i] = "failed"]
         /\ finished' = Append(finished, i)
    /\ UNCHANGED <<env, DEFAULT_IGNORE_PATTERNS, pc, args, main_ignore, ignore_patterns,
                   tree_output, walked, lines, paths, results, reads, output>>

\* Lines 146 and 205-212: every call has returned; gather returns the list.
ReturnSummed ==
    /\ pc = "gather"
    /\ \A i \in DOMAIN task : task[i] = "returned"
    /\ output' = assemble_summed(lines, results)
    /\ pc' = "returned"
    /\ UNCHANGED <<env, DEFAULT_IGNORE_PATTERNS, args, main_ignore, ignore_patterns,
                   tree_output, walked, lines, paths, task, results, finished, reads>>

\* Lines 141-146: a call has failed; gather (return_exceptions false) raises its
\* exception in the coroutine at once, whatever the other calls are doing, and
\* the exception leaves the async with block, which closes the client.
GatherRaises ==
    /\ pc = "gather"
    /\ \E i \in DOMAIN task : task[i] = "failed"
    /\ pc' = "closing"
    /\ UNCHANGED <<env, DEFAULT_IGNORE_PATTERNS, args, main_ignore, ignore_patterns,
                   tree_output, walked, lines, paths, task, results, finished, reads, output>>

\* Lines 202-204: asyncio.run ends the loop and raises out of dump_files.
RunRaises ==
    /\ pc = "closing"
    /\ task' = cancel_all_tasks(task)
    /\ pc' = "raised"
    /\ UNCHANGED <<env, DEFAULT_IGNORE_PATTERNS, args, main_ignore, ignore_patterns,
                   tree_output, walked, lines, paths, results, finished, reads, output>>

NextSumUp ==
    \/ Enter
    \/ ReadFile
    \/ ReturnPlain
    \/ StartBatch
    \/ TaskReturn
    \/ TaskFail
    \/ ReturnSummed
    \/ GatherRaises
    \/ RunRaises

SpecSumUp == InitSumUp /\ [][NextSumUp]_vars

-----------------------------------------------------------------------------
(* Claims checked under SpecSumUp *)

IsText(tok) == tok # NL

\* The block a file is to have: its header, its lines without their newlines
\* or, when reading it failed, the one error line, and an empty line.
ExpectedBlock(rel, outcome) ==
    LET full == root.given \o rel
        raw  == Content(rel)
    IN  IF outcome.ok
        THEN << Header(full) >> \o [i \in 1..Len(raw) |-> SelectSeq(raw[i], IsText)] \o << <<>> >>
        ELSE << Header(full), ErrorLine(full), <<>> >>

\* C4: a failure to open or to read a walked file, wherever it happens, does
\* not make dump_files raise; the block of that file is its header, one error
\* line and an empty line, with none of the lines read before the failure, and
\* the block of every other file is what it is without the failure.
ThmReadFailure ==
    /\ Len(reads) = Len(lines)
    /\ Len(paths) = Len(lines)
    /\ \A i \in DOMAIN lines : lines[i] = ExpectedBlock(paths[i], reads[i])
    /\ pc \notin { "call", "loop" } => paths = walked
    /\ pc = "raised" => \E i \in DOMAIN task : task[i] = "failed"
    /\ (pc = "returned" /\ ~args.sum_up) =>
          output = Join(<< NL >>, Flatten([i \in DOMAIN paths |-> ExpectedBlock(paths[i], reads[i])]))

\* A returned dump whose second file failed after a line had been read, between
\* two files that were read to their end.
WitReadFailure ==
    /\ pc = "returned"
    /\ Len(reads) = 3
    /\ reads[1].ok
    /\ ~reads[2].ok
    /\ reads[2].at > 0
    /\ reads[3].ok
    /\ ErrorLine(root.given \o paths[2])[1] \in Range(output)

PosOf(tok, str) == CHOOSE i \in DOMAIN str : str[i] = tok

HeaderTok(i) == Tok("hdr", root.given \o paths[i], 0)

\* The summary of the i-th file: the answer to the prompt made of its block,
\* asked for its path.
SummaryTok(i) == Tok("sum", root.given \o paths[i], Len(Prompt(lines[i])))

\* C5: when every summary call returns, in whatever order, there is one summary
\* per file, the i-th being that of the i-th file, and in the output it stands
\* directly after the i-th file's block and before the next file's header.
ThmSummaryOrder ==
    (pc = "returned" /\ args.sum_up) =>
        /\ Len(results) = Len(lines)
        /\ CountOf("sum", output) = Len(lines)
        /\ CountOf("hdr", output) = Len(lines)
        /\ \A i \in DOMAIN lines :
              /\ results[i] = << SummaryTok(i) >>
              /\ HeaderTok(i) \in Range(output)
              /\ SummaryTok(i) \in Range(output)
              /\ LET h == PosOf(HeaderTok(i), output)
                     z == PosOf(SummaryTok(i), output)
                 IN  /\ h < z
                     /\ SubSeq(output, h, z - 1) = Join(<< NL >>, lines[i]) \o << NL >>
                     /\ i < Len(lines) =>
                           /\ HeaderTok(i + 1) \in Range(output)
                           /\ z < PosOf(HeaderTok(i + 1), output)

\* A returned dump of three files whose second summary call returned last.
WitSummaryOrder ==
    /\ pc = "returned"
    /\ args.sum_up
    /\ finished = << 1, 3, 2 >>
    /\ CountOf("sum", output) = 3

\* C6: when the summary call of a file fails, dump_files still returns; its
\* output holds every file's block, the summaries of the calls that returned,
\* and a visible mark of the failure for the file whose call failed.
CexSummaryFailureRecovered ==
    (pc \in Completed /\ \E i \in DOMAIN task : task[i] = "failed") =>
        /\ pc = "returned"
        /\ \A i \in DOMAIN lines : HeaderTok(i) \in Range(output)
        /\ \A i \in DOMAIN task :
              /\ task[i] = "returned" => SummaryTok(i) \in Range(output)
              /\ task[i] = "failed" =>
                    \E j \in DOMAIN output : output[j].k = "sumerr" /\ output[j].p = root.given \o paths[i]

\* The output with every summary text taken out, the rest left as it is.
WithoutSummaryTexts(str) == SelectSeq(str, LAMBDA tok : tok.k # "sum")

\* The output with every summary taken out together with the newline before
\* it and the newline after it.
WithoutSummaryLines(str) ==
    LET near(i) == \E j \in { i - 1, i, i + 1 } : j \in DOMAIN str /\ str[j].k = "sum"
        kept    == SelectSeq([i \in 1..Len(str) |-> i], LAMBDA i : ~near(i))
    IN  [k \in 1..Len(kept) |-> str[kept[k]]]

\* The output of the same call with sum_up false: the same walk and the same
\* reads give the same blocks, which lines 209-212 join.
PlainOutput == assemble_plain(lines)

\* C7 as stated: the output without summaries equals the output with summaries
\* once every summary text is taken out of it.
CexStripSummaryTexts ==
    (pc = "returned" /\ args.sum_up) => WithoutSummaryTexts(output) = PlainOutput

\* C7, amended: the output without summaries equals the output with summaries
\* once every summary is taken out together with the newline before it and the
\* newline after it.
ThmStripSummaryLines ==
    (pc = "returned" /\ args.sum_up) =>
        /\ \A i \in DOMAIN output :
              output[i].k = "sum" =>
                 /\ i - 1 \in DOMAIN output /\ output[i - 1] = NL
                 /\ i + 1 \in DOMAIN output /\ output[i + 1] = NL
        /\ WithoutSummaryLines(output) = PlainOutput

\* A returned dump with the summaries of three files, one of them unreadable.
WitStripSummaryLines ==
    /\ pc = "returned"
    /\ args.sum_up
    /\ CountOf("sum", output) = 3
    /\ CountOf("err", output) = 1

=============================================================================
